---- MODULE Spec2Model ----
(***************************************************************************)
(* Model of the twins generator (generator.py): the enumeration of the     *)
(* partitions, their combination with leaders and rounds, the two-level    *)
(* split of the testcases over machines and worker processes, and the      *)
(* chunked writing of each worker's share to files.                        *)
(***************************************************************************)
EXTENDS Integers, Sequences, FiniteSets, TLC

VARIABLES fn, pipe, args, gen, partitions, procs, files

vars == <<fn, pipe, args, gen, partitions, procs, files>>

(***************************************************************************)
(* Bounds of the model.                                                    *)
(***************************************************************************)
MaxN == 6
MaxLen == 4
MaxShards == 3
MaxF == 3
MaxPartitions == 2
MaxRounds == 2
MaxMachines == 2
MaxWorkers == 2
MaxProcesses == 4
MaxPerFile == 2
MaxTestcases == 9
MaxFailures == 1
MaxRuns == 2
MaxGenNodes == 7
MaxCount == 600
MaxScenarios == 510

(***************************************************************************)
(* Helpers on sequences.                                                   *)
(***************************************************************************)
Range(s) == {s[i] : i \in 1..Len(s)}

SeqMin(s) == CHOOSE x \in Range(s) : \A y \in Range(s) : x <= y

SeqMax(s) == CHOOSE x \in Range(s) : \A y \in Range(s) : x >= y

RECURSIVE SeqSum(_)
SeqSum(s) == IF s = <<>> THEN 0 ELSE Head(s) + SeqSum(Tail(s))

RECURSIVE Flatten(_)
Flatten(ss) == IF ss = <<>> THEN <<>> ELSE Head(ss) \o Flatten(Tail(ss))

RECURSIVE Pow(_, _)
Pow(b, e) == IF e = 0 THEN 1 ELSE b * Pow(b, e - 1)

(***************************************************************************)
(* math.factorial, imported as f.                                          *)
(***************************************************************************)
RECURSIVE factorial(_)
factorial(n) == IF n = 0 THEN 1 ELSE n * factorial(n - 1)

(***************************************************************************)
(* Generator.S: the Stirling number of the second kind in closed form.     *)
(* The list S holds one term per i in range(k+1).                          *)
(***************************************************************************)
S(n, k) ==
    LET term(i) == Pow(-1, i)
                   * ((factorial(k) \div factorial(i)) \div factorial(k - i))
                   * Pow(k - i, n)
        terms == [x \in 1..(k + 1) |-> term(x - 1)]
    IN  SeqSum(terms) \div factorial(k)

(***************************************************************************)
(* The inner stirling2 of make_partitions with the deepcopy left out: the  *)
(* k copies of tmp alias the same partitions, so every += lands in the     *)
(* same lists.                                                             *)
(***************************************************************************)
RECURSIVE stirling2_aliased(_, _)
stirling2_aliased(n, k) ==
    IF k = 1 THEN << <<[x \in 1..n |-> x - 1]>> >>
    ELSE IF k = n THEN <<[x \in 1..n |-> <<x - 1>>]>>
    ELSE LET sub == stirling2_aliased(n - 1, k - 1)
             s_n1_k1 == [i \in 1..Len(sub) |-> Append(sub[i], <<n - 1>>)]
             tmp == stirling2_aliased(n - 1, k)
             shared == [j \in 1..Len(tmp) |->
                          [b \in 1..k |-> Append(tmp[j][b], n - 1)]]
             k_s_n1_k == [i \in 1..(Len(tmp) * k) |->
                            shared[((i - 1) % Len(tmp)) + 1]]
         IN  s_n1_k1 \o k_s_n1_k

(***************************************************************************)
(* The inner stirling2 of make_partitions.  A partition is a list of       *)
(* blocks, a block a list of node indices (0-based).  Python's index i of  *)
(* k_s_n1_k is i - 1 here.                                                 *)
(***************************************************************************)
RECURSIVE stirling2(_, _)
stirling2(n, k) ==
    IF k = 1 THEN << <<[x \in 1..n |-> x - 1]>> >>
    ELSE IF k = n THEN <<[x \in 1..n |-> <<x - 1>>]>>
    ELSE LET sub == stirling2(n - 1, k - 1)
             s_n1_k1 == [i \in 1..Len(sub) |-> Append(sub[i], <<n - 1>>)]
             tmp == stirling2(n - 1, k)
             copies == [i \in 1..(Len(tmp) * k) |->
                          tmp[((i - 1) % Len(tmp)) + 1]]
             k_s_n1_k == [i \in 1..(Len(tmp) * k) |->
                            [copies[i] EXCEPT
                               ![((i - 1) \div Len(tmp)) + 1] =
                                   Append(@, n - 1)]]
         IN  s_n1_k1 \o k_s_n1_k

(***************************************************************************)
(* itertools.product(pool, repeat=r) as an iterator: the odometer over     *)
(* the r pools.  n is the size of the pool; an item is the tuple of the    *)
(* (0-based) pool indices of its r components.                             *)
(***************************************************************************)
product(n, r) ==
    [n |-> n, r |-> r, indices |-> [x \in 1..r |-> 0],
     started |-> FALSE, stopped |-> FALSE]

RECURSIVE Roll(_, _, _)
Roll(indices, i, n) ==
    IF i = 0 THEN <<>>
    ELSE IF indices[i] + 1 = n
         THEN Roll([indices EXCEPT ![i] = 0], i - 1, n)
         ELSE [indices EXCEPT ![i] = @ + 1]

product_next(p) ==
    IF p.stopped THEN [src |-> p, ok |-> FALSE, item |-> <<>>]
    ELSE IF ~p.started
    THEN IF p.n = 0
         THEN [src |-> [p EXCEPT !.stopped = TRUE], ok |-> FALSE, item |-> <<>>]
         ELSE [src |-> [p EXCEPT !.started = TRUE], ok |-> TRUE,
               item |-> p.indices]
    ELSE LET nx == Roll(p.indices, p.r, p.n)
         IN  IF nx = <<>>
             THEN [src |-> [p EXCEPT !.stopped = TRUE], ok |-> FALSE,
                   item |-> <<>>]
             ELSE [src |-> [p EXCEPT !.indices = nx], ok |-> TRUE, item |-> nx]

(***************************************************************************)
(* The position (0-based) of an item in the order of product.              *)
(***************************************************************************)
RECURSIVE Position(_, _)
Position(item, n) ==
    IF item = <<>> THEN 0
    ELSE Position(SubSeq(item, 1, Len(item) - 1), n) * n + item[Len(item)]

(***************************************************************************)
(* An iterator pipeline: the product at the source and, above it, one      *)
(* level per application of more_itertools.distribute.  A level is         *)
(* tee(source, n) and, for every child index, islice(child, index, None,   *)
(* n).  rd[j] counts the items child j has read (the islice's cnt), nxt[j] *)
(* is the islice's next target, buf holds the items some child has still   *)
(* to read (they start at index base of the tee's source), sel is the      *)
(* child the level above reads.                                            *)
(***************************************************************************)
Pipeline(src) == [src |-> src, lv |-> <<>>]

(***************************************************************************)
(* distribute with every islice started one item late: index + 1 in the   *)
(* place of index.                                                         *)
(***************************************************************************)
distribute_late(n, it) ==
    [it EXCEPT !.lv = Append(@, [n |-> n, sel |-> 0,
                                 rd |-> [j \in 1..n |-> 0],
                                 nxt |-> [j \in 1..n |-> j],
                                 base |-> 0, buf |-> <<>>])]

distribute(n, it) ==
    [it EXCEPT !.lv = Append(@, [n |-> n, sel |-> 0,
                                 rd |-> [j \in 1..n |-> 0],
                                 nxt |-> [j \in 1..n |-> j - 1],
                                 base |-> 0, buf |-> <<>>])]

Select(it, j) == [it EXCEPT !.lv[Len(it.lv)].sel = j]

Release(l) ==
    LET low == SeqMin(l.rd)
    IN  [l EXCEPT !.buf = SubSeq(@, low - l.base + 1, Len(@)), !.base = low]

RECURSIVE tee_next(_, _, _)
RECURSIVE islice_next(_, _, _)

Upstream(it, k) ==
    IF k = 1
    THEN LET r == product_next(it.src)
         IN  [it |-> [it EXCEPT !.src = r.src], ok |-> r.ok, item |-> r.item]
    ELSE islice_next(it, k - 1, it.lv[k - 1].sel)

tee_next(it, k, j) ==
    LET l == it.lv[k]
    IN  IF l.rd[j + 1] < l.base + Len(l.buf)
        THEN [it |-> [it EXCEPT !.lv[k] =
                        Release([l EXCEPT !.rd[j + 1] = @ + 1])],
              ok |-> TRUE, item |-> l.buf[l.rd[j + 1] - l.base + 1]]
        ELSE LET r == Upstream(it, k)
             IN  IF ~r.ok THEN r
                 ELSE [it |-> [r.it EXCEPT !.lv[k] =
                                 Release([l EXCEPT !.rd[j + 1] = @ + 1,
                                                   !.buf = Append(@, r.item)])],
                       ok |-> TRUE, item |-> r.item]

islice_step(l, j) == [l EXCEPT !.nxt[j + 1] = @ + l.n]

islice_next(it, k, j) ==
    LET cnt == it.lv[k].rd[j + 1]
        r == tee_next(it, k, j)
    IN  IF ~r.ok THEN r
        ELSE IF cnt < it.lv[k].nxt[j + 1] THEN islice_next(r.it, k, j)
        ELSE [r EXCEPT !.it.lv[k] = islice_step(@, j)]

(***************************************************************************)
(* The number of items a level's tee keeps in memory.                      *)
(***************************************************************************)
Held(l) == Len(l.buf)

(***************************************************************************)
(* Python values as the arguments carry them: a type tag and a number.     *)
(* True is 1 and False is 0; a bool is an instance of int.                 *)
(***************************************************************************)
PyInt(v) == [t |-> "int", v |-> v]

PyBool(b) == [t |-> "bool", v |-> IF b THEN 1 ELSE 0]

PyStr == [t |-> "str", v |-> 0]

PyFloat(v) == [t |-> "float", v |-> v]

isinstance_int(x) == x.t \in {"int", "bool"}

isinstance_str(x) == x.t = "str"

isinstance_bool(x) == x.t = "bool"

(***************************************************************************)
(* testcases_length with the leaders left out of the product.              *)
(***************************************************************************)
testcases_length_no_leaders(number_of_nodes, number_of_partitions, number_of_rounds) ==
    LET f == (number_of_nodes - 1) \div 3
        total == S(number_of_nodes + f, number_of_partitions)
    IN  Pow(total, number_of_rounds)

(***************************************************************************)
(* Generator.testcases_length, from the closed form alone.                 *)
(***************************************************************************)
testcases_length(number_of_nodes, number_of_partitions, number_of_rounds) ==
    LET f == (number_of_nodes - 1) \div 3
        total == S(number_of_nodes + f, number_of_partitions) * f
    IN  Pow(total, number_of_rounds)

(***************************************************************************)
(* Generator.__init__ without the check of folder_path's type.             *)
(***************************************************************************)
WarningThreshold == 1000000000

NoGenerator ==
    [pc |-> "new", exc |-> "", number_of_nodes |-> 0,
     number_of_partitions |-> 0, number_of_rounds |-> 0, folder_path |-> "",
     machine_index |-> 0, number_of_machines |-> 0, f |-> 0,
     warning |-> FALSE, chunks |-> <<>>, spawned |-> 0, joined |-> 0,
     log |-> <<>>, runs |-> 0, directory |-> ""]

Raised(g, exc) == [g EXCEPT !.pc = "raised", !.exc = exc]

FolderName(x) == IF isinstance_str(x) THEN "out" ELSE ""

Generator_init_any_folder(a, index) ==
    LET mi == a.machine_index[index]
        types == /\ isinstance_int(a.number_of_nodes)
                 /\ isinstance_int(a.number_of_partitions)
                 /\ isinstance_int(a.number_of_rounds)
                 /\ isinstance_int(mi)
                 /\ isinstance_int(a.number_of_machines)
        values == /\ a.number_of_nodes.v > 0
                  /\ a.number_of_partitions.v > 0
                  /\ a.number_of_rounds.v > 0
                  /\ mi.v > 0
                  /\ a.number_of_machines.v >= mi.v
        f == (a.number_of_nodes.v - 1) \div 3
        self == [NoGenerator EXCEPT
                   !.number_of_nodes = a.number_of_nodes.v,
                   !.number_of_partitions = a.number_of_partitions.v,
                   !.number_of_rounds = a.number_of_rounds.v,
                   !.folder_path = FolderName(a.folder_path),
                   !.machine_index = mi.v,
                   !.number_of_machines = a.number_of_machines.v,
                   !.f = f]
    IN  IF ~types THEN Raised(NoGenerator, "TypeError")
        ELSE IF ~values THEN Raised(NoGenerator, "ValueError")
        ELSE IF a.number_of_nodes.v + f < a.number_of_partitions.v
        THEN Raised(self, "ValueError")
        ELSE [self EXCEPT
                !.pc = "ready",
                !.warning = testcases_length(a.number_of_nodes.v,
                                a.number_of_partitions.v,
                                a.number_of_rounds.v) > WarningThreshold]

(***************************************************************************)
(* Generator.__init__: the generator built from the arguments a, with      *)
(* machine_index the index-th of a.machine_index; or the exception raised. *)
(***************************************************************************)
Generator_init(a, index) ==
    LET mi == a.machine_index[index]
        types == /\ isinstance_int(a.number_of_nodes)
                 /\ isinstance_int(a.number_of_partitions)
                 /\ isinstance_int(a.number_of_rounds)
                 /\ isinstance_str(a.folder_path)
                 /\ isinstance_int(mi)
                 /\ isinstance_int(a.number_of_machines)
        values == /\ a.number_of_nodes.v > 0
                  /\ a.number_of_partitions.v > 0
                  /\ a.number_of_rounds.v > 0
                  /\ mi.v > 0
                  /\ a.number_of_machines.v >= mi.v
        f == (a.number_of_nodes.v - 1) \div 3
        self == [NoGenerator EXCEPT
                   !.number_of_nodes = a.number_of_nodes.v,
                   !.number_of_partitions = a.number_of_partitions.v,
                   !.number_of_rounds = a.number_of_rounds.v,
                   !.folder_path = FolderName(a.folder_path),
                   !.machine_index = mi.v,
                   !.number_of_machines = a.number_of_machines.v,
                   !.f = f]
    IN  IF ~types THEN Raised(NoGenerator, "TypeError")
        ELSE IF ~values THEN Raised(NoGenerator, "ValueError")
        ELSE IF a.number_of_nodes.v + f < a.number_of_partitions.v
        THEN Raised(self, "ValueError")
        ELSE [self EXCEPT
                !.pc = "ready",
                !.warning = testcases_length(a.number_of_nodes.v,
                                a.number_of_partitions.v,
                                a.number_of_rounds.v) > WarningThreshold]

(***************************************************************************)
(* Generator.target_nodes, get_twin, make_partitions,                      *)
(* combine_partitions_with_leaders, combine_scenarios_with_rounds.         *)
(***************************************************************************)
target_nodes(self) == [x \in 1..self.f |-> x - 1]

get_twin(self, node) == self.number_of_nodes + node

make_partitions(self) ==
    stirling2(self.number_of_nodes + self.f, self.number_of_partitions)

combine_leaders_with_partitions(self, parts) ==
    LET leaders == target_nodes(self)
        n == Len(parts)
    IN  [i \in 1..(n * Len(leaders)) |->
           <<leaders[((i - 1) \div n) + 1], parts[((i - 1) % n) + 1]>>]

combine_partitions_with_leaders(self, parts) ==
    LET leaders == target_nodes(self)
        n == Len(leaders)
    IN  [i \in 1..(Len(parts) * n) |->
           <<leaders[((i - 1) % n) + 1], parts[((i - 1) \div n) + 1]>>]

combine_scenarios_once(self, scenarios) == product(Len(scenarios), 1)

combine_scenarios_with_rounds(self, scenarios) ==
    product(Len(scenarios), self.number_of_rounds)

(***************************************************************************)
(* The testcase an item of the product stands for: the tuple of the        *)
(* scenarios its indices select.                                           *)
(***************************************************************************)
Testcase(scenarios, item) == [r \in 1..Len(item) |-> scenarios[item[r] + 1]]

(***************************************************************************)
(* The default filter, bool: a testcase is a tuple, true when not empty.   *)
(***************************************************************************)
filter(testcase) == Len(testcase) > 0

(***************************************************************************)
(* JSONFormat._format_scenario and JSONFormat.make: the document written   *)
(* for one chunk.  Round numbers are 1-based; a leader that is a target    *)
(* node is followed by its twin.                                           *)
(***************************************************************************)
JSONFormat_format_scenario_last(self, testcase) ==
    LET leaders(leader) ==
            IF leader \in Range(target_nodes(self))
            THEN <<leader, get_twin(self, leader)>>
            ELSE <<leader>>
        last == testcase[Len(testcase)]
    IN  [round_leaders |-> [r \in 1..Len(testcase) |-> leaders(last[1])],
         round_partitions |-> [r \in 1..Len(testcase) |-> last[2]]]

JSONFormat_format_scenario(self, testcase) ==
    LET leaders(leader) ==
            IF leader \in Range(target_nodes(self))
            THEN <<leader, get_twin(self, leader)>>
            ELSE <<leader>>
    IN  [round_leaders |-> [r \in 1..Len(testcase) |-> leaders(testcase[r][1])],
         round_partitions |-> [r \in 1..Len(testcase) |-> testcase[r][2]]]

JSONFormat_make(self, testcases) ==
    [num_of_nodes |-> self.number_of_nodes,
     num_of_twins |-> self.f,
     scenarios |-> [i \in 1..Len(testcases) |->
                      JSONFormat_format_scenario(self, testcases[i])]]

(***************************************************************************)
(* The name of the file _print opens for chunk i, with the worker's index  *)
(* left out of the name.                                                   *)
(***************************************************************************)
filename_no_worker(self, process_id, dryrun, i) ==
    LET basename == "testcase-" \o ToString(self.machine_index)
    IN  IF dryrun THEN "tmp-" \o basename
        ELSE basename \o "-" \o ToString(i)

(***************************************************************************)
(* The name of the file _print opens for chunk i.                          *)
(***************************************************************************)
filename(self, process_id, dryrun, i) ==
    LET basename == "testcase-" \o ToString(self.machine_index)
                    \o "-" \o ToString(process_id)
    IN  IF dryrun THEN "tmp-" \o basename
        ELSE basename \o "-" \o ToString(i)

join(folder_path, name) == <<folder_path, name>>

(***************************************************************************)
(* ichunked with chunks one item too long.                                 *)
(***************************************************************************)
RECURSIVE ichunk_rest_long(_, _, _)
ichunk_rest_long(it, j, n) ==
    IF n = -1 THEN [it |-> it, items |-> <<>>]
    ELSE LET r == islice_next(it, Len(it.lv), j)
         IN  IF ~r.ok THEN [it |-> r.it, items |-> <<>>]
             ELSE LET more == ichunk_rest_long(r.it, j, n - 1)
                  IN  [it |-> more.it, items |-> <<r.item>> \o more.items]

(***************************************************************************)
(* more_itertools.ichunked: the rest of a chunk after its first item, at   *)
(* most n more items of child j of the pipeline's last level.              *)
(***************************************************************************)
RECURSIVE ichunk_rest(_, _, _)
ichunk_rest(it, j, n) ==
    IF n = 0 THEN [it |-> it, items |-> <<>>]
    ELSE LET r == islice_next(it, Len(it.lv), j)
         IN  IF ~r.ok THEN [it |-> r.it, items |-> <<>>]
             ELSE LET more == ichunk_rest(r.it, j, n - 1)
                  IN  [it |-> more.it, items |-> <<r.item>> \o more.items]

(***************************************************************************)
(* SpecFn: the functions on their own.  The inputs are drawn by the        *)
(* initial state: (n, k) for stirling2, and for distribute a source of     *)
(* len items split into n children, which are then read in any order.      *)
(***************************************************************************)
FnInputs ==
    {[op |-> "stirling2", n |-> n, k |-> k, out |-> <<>>,
      it |-> <<>>, stop |-> <<>>] : n \in 1..MaxN, k \in 1..MaxN}
    \cup
    {[op |-> "distribute", n |-> n, k |-> len,
      out |-> [j \in 1..n |-> <<>>],
      it |-> distribute(n, Pipeline(product(len, 1))),
      stop |-> [j \in 1..n |-> FALSE]] : n \in 1..MaxShards, len \in 0..MaxLen}

Idle ==
    /\ pipe = <<>>
    /\ args = <<>>
    /\ gen = <<>>
    /\ partitions = <<>>
    /\ procs = <<>>
    /\ files = <<>>

InitFn ==
    /\ fn \in FnInputs
    /\ fn.op = "stirling2" => fn.n >= fn.k
    /\ Idle

FnStirling2 ==
    /\ fn.op = "stirling2"
    /\ fn.out = <<>>
    /\ fn' = [fn EXCEPT !.out = stirling2(fn.n, fn.k)]
    /\ UNCHANGED <<pipe, args, gen, partitions, procs, files>>

FnNext(j) ==
    /\ fn.op = "distribute"
    /\ ~fn.stop[j + 1]
    /\ LET r == islice_next(fn.it, 1, j)
       IN  fn' = IF r.ok
                 THEN [fn EXCEPT !.it = r.it, !.out[j + 1] = Append(@, r.item)]
                 ELSE [fn EXCEPT !.it = r.it, !.stop[j + 1] = TRUE]
    /\ UNCHANGED <<pipe, args, gen, partitions, procs, files>>

FnRead == \E j \in 0..(MaxShards - 1) : j < fn.n /\ FnNext(j)

NextFn == FnStirling2 \/ FnRead

SpecFn == InitFn /\ [][NextFn]_vars

(***************************************************************************)
(* C2: stirling2(n, k), for n >= k >= 1, returns exactly S(n, k)           *)
(* partitions, pairwise distinct as sets of sets, each of exactly k        *)
(* non-empty blocks that cover every index 0..n-1 exactly once.            *)
(***************************************************************************)
AsSetOfSets(partition) == {Range(block) : block \in Range(partition)}

Occurrences(partition, x) ==
    SeqSum([b \in 1..Len(partition) |->
              Cardinality({i \in 1..Len(partition[b]) : partition[b][i] = x})])

C2_MakePartitions ==
    (fn # <<>> /\ fn.op = "stirling2" /\ fn.out # <<>>) =>
        /\ Len(fn.out) = S(fn.n, fn.k)
        /\ Cardinality({AsSetOfSets(fn.out[i]) : i \in 1..Len(fn.out)})
             = Len(fn.out)
        /\ \A i \in 1..Len(fn.out) :
             /\ Len(fn.out[i]) = fn.k
             /\ \A b \in 1..fn.k : Len(fn.out[i][b]) >= 1
             /\ SeqSum([b \in 1..fn.k |-> Len(fn.out[i][b])]) = fn.n
             /\ \A x \in 0..(fn.n - 1) : Occurrences(fn.out[i], x) = 1

C2_Witness ==
    /\ fn # <<>>
    /\ fn.op = "stirling2"
    /\ fn.n = 5
    /\ fn.k = 3
    /\ Len(fn.out) = 25

(***************************************************************************)
(* C5: distribute over M children puts the item at 0-based position i of   *)
(* the source into child i mod M and keeps the order, so child j gets the  *)
(* positions j, j+M, j+2M, ...; the sizes of the shares differ by at most  *)
(* one, and with M above the length the children from the length on are    *)
(* empty.                                                                  *)
(***************************************************************************)
SharePositions(j, m, len) ==
    LET size == IF j >= len THEN 0 ELSE ((len - 1 - j) \div m) + 1
    IN  [q \in 1..size |-> j + (q - 1) * m]

ShareRead(j) == [q \in 1..Len(fn.out[j + 1]) |-> Position(fn.out[j + 1][q], fn.k)]

C5_Distribute ==
    (fn # <<>> /\ fn.op = "distribute") =>
        /\ \A j \in 0..(fn.n - 1) :
             /\ \A q \in 1..Len(fn.out[j + 1]) :
                  /\ ShareRead(j)[q] % fn.n = j
                  /\ ShareRead(j)[q] = j + (q - 1) * fn.n
             /\ fn.stop[j + 1] =>
                  /\ ShareRead(j) = SharePositions(j, fn.n, fn.k)
                  /\ (j >= fn.k => fn.out[j + 1] = <<>>)
        /\ (\A j \in 1..fn.n : fn.stop[j]) =>
             /\ \A a, b \in 1..fn.n :
                  Len(fn.out[a]) - Len(fn.out[b]) \in {-1, 0, 1}
             /\ SeqSum([j \in 1..fn.n |-> Len(fn.out[j])]) = fn.k

C5_Witness ==
    /\ fn # <<>>
    /\ fn.op = "distribute"
    /\ fn.n = 3
    /\ fn.k = 4
    /\ \A j \in 1..fn.n : fn.stop[j]
    /\ Len(fn.out[1]) = 2
    /\ Len(fn.out[3]) = 1

(***************************************************************************)
(* Spec: the generators of one configuration, one per machine index, each  *)
(* constructed and run once, with their worker processes interleaved.      *)
(* The arguments are drawn by the initial state: the valid configurations  *)
(* within the bounds (the smallest number of nodes 3f + 1 of each f up to   *)
(* MaxF, at most MaxProcesses processes and MaxTestcases testcases in      *)
(* all), and a valid one with one or two arguments replaced by a value of  *)
(* the wrong type or out of range.                                         *)
(***************************************************************************)
Arguments(n, k, r, m, d, w, c) ==
    [number_of_nodes |-> PyInt(n), number_of_partitions |-> PyInt(k),
     number_of_rounds |-> PyInt(r), folder_path |-> PyStr,
     number_of_machines |-> PyInt(m),
     machine_index |-> [x \in 1..m |-> PyInt(x)],
     dryrun |-> PyBool(d), workers |-> PyInt(w),
     testcases_per_file |-> PyInt(c)]

ValidArguments ==
    {Arguments(c[1], c[2], c[3], c[4], c[5], c[6], c[7]) :
       c \in {x \in {3 * t + 1 : t \in 0..MaxF} \X (1..MaxPartitions)
                     \X (1..MaxRounds)
                     \X (1..MaxMachines) \X BOOLEAN \X (1..MaxWorkers)
                     \X (1..MaxPerFile) :
                /\ x[1] + ((x[1] - 1) \div 3) >= x[2]
                /\ x[4] * x[6] <= MaxProcesses
                /\ S(x[1] + ((x[1] - 1) \div 3), x[2]) * ((x[1] - 1) \div 3)
                     <= MaxTestcases
                /\ testcases_length(x[1], x[2], x[3]) <= MaxTestcases}}

Base == Arguments(4, 2, 1, 1, FALSE, 1, MaxPerFile)

BadCounts == {PyStr, PyFloat(2), PyInt(0), PyInt(-1), PyBool(FALSE)}

InvalidArguments ==
    {[Base EXCEPT !.number_of_nodes = v] : v \in BadCounts}
    \cup {[Base EXCEPT !.number_of_partitions = v] :
            v \in BadCounts \cup {PyInt(6), PyInt(20)}}
    \cup {[Base EXCEPT !.number_of_rounds = v] : v \in BadCounts}
    \cup {[Base EXCEPT !.folder_path = v] : v \in {PyInt(1), PyBool(TRUE)}}
    \cup {[Base EXCEPT !.number_of_machines = v] : v \in BadCounts}
    \cup {[Base EXCEPT !.machine_index = <<v>>] :
            v \in BadCounts \cup {PyInt(2)}}
    \cup {[Base EXCEPT !.machine_index = <<v>>, !.number_of_nodes = PyStr] :
            v \in {PyInt(0), PyInt(2)}}
    \cup {[Base EXCEPT !.dryrun = v] : v \in {PyInt(1), PyInt(0), PyStr}}
    \cup {[Base EXCEPT !.workers = v] : v \in BadCounts}
    \cup {[Base EXCEPT !.testcases_per_file = v] : v \in BadCounts}
    \cup {[Base EXCEPT !.workers = PyInt(0), !.dryrun = PyStr]}

BoolArguments ==
    {[Base EXCEPT !.workers = PyBool(TRUE)],
     [Base EXCEPT !.number_of_machines = PyBool(TRUE)]}

Init ==
    /\ args \in ValidArguments \cup InvalidArguments \cup BoolArguments
    /\ gen = [g \in 1..Len(args.machine_index) |-> NoGenerator]
    /\ partitions = [g \in 1..Len(args.machine_index) |-> <<>>]
    /\ procs = [g \in 1..Len(args.machine_index) |-> <<>>]
    /\ files = <<>>
    /\ fn = <<>>
    /\ pipe = <<>>

(***************************************************************************)
(* Generator(...): the constructor of generator g.                         *)
(***************************************************************************)
Construct(g) ==
    /\ g \in DOMAIN gen
    /\ gen[g].pc = "new"
    /\ gen' = [gen EXCEPT ![g] = Generator_init(args, g)]
    /\ UNCHANGED <<fn, pipe, args, partitions, procs, files>>

(***************************************************************************)
(* TemporaryDirectory(): a fresh directory of generator g's run, one per   *)
(* call of run.                                                            *)
(***************************************************************************)
TemporaryDirectory(g) ==
    "tmp" \o ToString(g) \o "_" \o ToString(gen[g].runs + 1)

(***************************************************************************)
(* Generator.run up to the loop of print: the checks of the arguments,     *)
(* the partitions, the lazy testcases, their split over the machines and,  *)
(* in print, over the workers.                                             *)
(***************************************************************************)
Run(g) ==
    LET self == gen[g]
        types == /\ isinstance_bool(args.dryrun)
                 /\ isinstance_int(args.workers)
                 /\ isinstance_int(args.testcases_per_file)
        values == /\ args.workers.v > 0
                  /\ args.testcases_per_file.v > 0
        parts == make_partitions(self)
        scenarios == combine_partitions_with_leaders(self, parts)
        testcases == combine_scenarios_with_rounds(self, scenarios)
        shares == Select(distribute(self.number_of_machines,
                                    Pipeline(testcases)),
                         self.machine_index - 1)
        context_manager == IF args.dryrun.v = 1 THEN TemporaryDirectory(g)
                           ELSE ""
        directory == IF args.dryrun.v = 1 THEN context_manager
                     ELSE self.folder_path
    IN  /\ g \in DOMAIN gen
        /\ self.pc = "ready"
        /\ IF ~types
           THEN /\ gen' = [gen EXCEPT ![g].pc = "run_raised",
                                      ![g].exc = "TypeError"]
                /\ UNCHANGED partitions
           ELSE IF ~values
           THEN /\ gen' = [gen EXCEPT ![g].pc = "run_raised",
                                      ![g].exc = "ValueError"]
                /\ UNCHANGED partitions
           ELSE /\ partitions' = [partitions EXCEPT ![g] = parts]
                /\ gen' = [gen EXCEPT
                             ![g].pc = "print",
                             ![g].runs = @ + 1,
                             ![g].directory = context_manager,
                             ![g].folder_path = directory,
                             ![g].chunks = distribute(args.workers.v, shares)]
        /\ UNCHANGED <<fn, pipe, args, procs, files>>

(***************************************************************************)
(* print with chunks[0] handed to every process.                           *)
(***************************************************************************)
worker_chunks_first(chunks, i) == Select(chunks, 0)

(***************************************************************************)
(* Generator.print: chunks[i], the share handed to process i.              *)
(***************************************************************************)
worker_chunks(chunks, i) == Select(chunks, i)

(***************************************************************************)
(* Generator.print, one turn of its loop: Process(target=self._print,      *)
(* args=(chunks[i], ...)) and p.start().  The child holds its own copy of  *)
(* the iterators.                                                          *)
(***************************************************************************)
Start(g) ==
    LET i == gen[g].spawned
    IN  /\ g \in DOMAIN gen
        /\ gen[g].pc = "print"
        /\ i < args.workers.v
        /\ procs' = [procs EXCEPT ![g] =
                       Append(@, [status |-> "running",
                                  testcases |-> worker_chunks(gen[g].chunks, i),
                                  i |-> 0, got |-> <<>>, opens |-> 0])]
        /\ gen' = [gen EXCEPT ![g].spawned = i + 1]
        /\ UNCHANGED <<fn, pipe, args, partitions, files>>

(***************************************************************************)
(* Generator._print in worker process_id of generator g, one turn of its   *)
(* loop over the chunks: ichunked looks for one more item; with none the   *)
(* process ends, else the chunk is read and formatted, the file opened     *)
(* and the document appended.  open or write may raise, which ends the     *)
(* process with the exception, and open does raise when the folder does   *)
(* not exist: the folder given to the constructor is taken to exist, a     *)
(* temporary directory exists until its run leaves the with block.         *)
(***************************************************************************)
Failures ==
    Cardinality({x \in (DOMAIN procs) \X (1..MaxWorkers) :
                   /\ x[2] \in DOMAIN procs[x[1]]
                   /\ procs[x[1]][x[2]].status = "failed"})

Append_to(fs, path, entry) ==
    IF path \in DOMAIN fs THEN [fs EXCEPT ![path] = Append(@, entry)]
    ELSE [x \in DOMAIN fs \cup {path} |->
            IF x = path THEN <<entry>> ELSE fs[x]]

print_chunk(g, process_id) ==
    LET self == gen[g]
        p == procs[g][process_id + 1]
        dryrun == args.dryrun.v = 1
        share == p.testcases.lv[Len(p.testcases.lv)].sel
        first == islice_next(p.testcases, Len(p.testcases.lv), share)
        rest == ichunk_rest(first.it, share,
                            args.testcases_per_file.v - 1)
        chunk == <<first.item>> \o rest.items
        scenarios == combine_partitions_with_leaders(self, partitions[g])
        kept == SelectSeq([x \in 1..Len(chunk) |->
                             Testcase(scenarios, chunk[x])], filter)
        data == JSONFormat_make(self, kept)
        path == join(self.folder_path, filename(self, process_id, dryrun, p.i))
        entry == [data |-> data,
                  by |-> <<self.machine_index, process_id, p.i>>]
        exists == \/ self.folder_path = FolderName(args.folder_path)
                  \/ self.folder_path = self.directory
    IN  /\ g \in DOMAIN gen
        /\ process_id + 1 \in DOMAIN procs[g]
        /\ p.status = "running"
        /\ IF ~first.ok
           THEN /\ procs' = [procs EXCEPT ![g][process_id + 1] =
                               [p EXCEPT !.status = "done",
                                         !.testcases = first.it]]
                /\ UNCHANGED files
           ELSE \E raises \in BOOLEAN :
                  IF raises
                  THEN /\ Failures < MaxFailures \/ ~exists
                       /\ procs' = [procs EXCEPT ![g][process_id + 1] =
                                      [p EXCEPT !.status = "failed",
                                                !.testcases = rest.it,
                                                !.got = @ \o chunk,
                                                !.opens = @ + 1]]
                       /\ UNCHANGED files
                  ELSE /\ exists
                       /\ procs' = [procs EXCEPT ![g][process_id + 1] =
                                      [p EXCEPT !.testcases = rest.it,
                                                !.got = @ \o chunk,
                                                !.opens = @ + 1,
                                                !.i = @ + 1]]
                       /\ files' = Append_to(files, path, entry)
        /\ UNCHANGED <<fn, pipe, args, gen, partitions>>

(***************************************************************************)
(* Generator.print: p.join() of the next job, in the order of the list.    *)
(***************************************************************************)
Join(g) ==
    LET i == gen[g].joined
    IN  /\ g \in DOMAIN gen
        /\ gen[g].pc = "print"
        /\ gen[g].spawned = args.workers.v
        /\ i < args.workers.v
        /\ procs[g][i + 1].status \in {"done", "failed"}
        /\ gen' = [gen EXCEPT ![g].joined = i + 1]
        /\ UNCHANGED <<fn, pipe, args, partitions, procs, files>>

(***************************************************************************)
(* Generator.run after print: the temporary directory of a dry run is      *)
(* removed with all it holds, and 'Finished.' is logged.                   *)
(***************************************************************************)
Finish(g) ==
    /\ g \in DOMAIN gen
    /\ gen[g].pc = "print"
    /\ gen[g].joined = args.workers.v
    /\ files' = IF args.dryrun.v = 1
                THEN [x \in {y \in DOMAIN files : y[1] # gen[g].folder_path}
                        |-> files[x]]
                ELSE files
    /\ gen' = [gen EXCEPT ![g].pc = "finished",
                          ![g].directory = "",
                          ![g].log = Append(@, "Finished.")]
    /\ UNCHANGED <<fn, pipe, args, partitions, procs>>

Work(g) == \E w \in 0..(MaxWorkers - 1) : print_chunk(g, w)

Next ==
    \E g \in 1..MaxMachines :
        \/ Construct(g)
        \/ Run(g)
        \/ Start(g)
        \/ Work(g)
        \/ Join(g)
        \/ Finish(g)

Spec == Init /\ [][Next]_vars

(***************************************************************************)
(* What the claims speak of.                                               *)
(***************************************************************************)
Generators == DOMAIN gen

Workers(g) == DOMAIN procs[g]

Dryrun == args.dryrun.v = 1

ValidRun == args \in ValidArguments

AllDone ==
    \A g \in Generators :
        /\ gen[g].pc = "finished"
        /\ \A w \in Workers(g) : procs[g][w].status = "done"

Handed == Flatten([g \in 1..Len(procs) |->
                    Flatten([w \in 1..Len(procs[g]) |-> procs[g][w].got])])

ScenarioCount(g) ==
    Len(combine_partitions_with_leaders(gen[g], partitions[g]))

(***************************************************************************)
(* C1: with run() executed once per machine index, every testcase of the   *)
(* full sequence is handed to the _print of exactly one (machine_index,    *)
(* worker) pair: never to two, and once every process has ended normally,  *)
(* to one.                                                                 *)
(***************************************************************************)
C1_ExactlyOnePair ==
    ValidRun =>
        /\ Cardinality(Range(Handed)) = Len(Handed)
        /\ AllDone =>
             Range(Handed) = [1..gen[1].number_of_rounds ->
                                0..(ScenarioCount(1) - 1)]

C1_Witness ==
    /\ ValidRun
    /\ AllDone
    /\ Len(gen) = 2
    /\ Len(procs[1]) = 2
    /\ Len(procs[2]) = 2
    /\ Len(Handed) = 9
    /\ Len(procs[1][1].got) = 3
    /\ Len(procs[2][2].got) = 2

(***************************************************************************)
(* C4: when a worker process has failed, run() does not return normally:   *)
(* it never logs 'Finished.' with a failed worker behind it.               *)
(***************************************************************************)
C4_FailureSurfaced ==
    \A g \in Generators :
        gen[g].pc = "finished" =>
            \A w \in Workers(g) : procs[g][w].status # "failed"

(***************************************************************************)
(* C9: in a run that is not a dry run, with the machines sharing one       *)
(* folder, no two (machine_index, worker, chunk index) triples write to    *)
(* the same file: every file holds exactly one chunk, and every triple     *)
(* has its own file.                                                       *)
(***************************************************************************)
C9_OneChunkPerFile ==
    (ValidRun /\ ~Dryrun) =>
        /\ \A path \in DOMAIN files : Len(files[path]) = 1
        /\ \A p1, p2 \in DOMAIN files :
             files[p1][1].by = files[p2][1].by => p1 = p2
        /\ \A path \in DOMAIN files : path[1] = "out"

C9_Witness ==
    /\ ValidRun
    /\ ~Dryrun
    /\ Len(gen) = 2
    /\ AllDone
    /\ Cardinality(DOMAIN files) = 9
    /\ \A g \in Generators : Len(procs[g]) = 2

(***************************************************************************)
(* C10: in a worker that reads its own share to the end, the testcases     *)
(* kept in memory for the shares it does not read stay within a constant   *)
(* that does not grow with the number of testcases, here one turn of the   *)
(* split (machines times workers); the whole sequence is never buffered.   *)
(***************************************************************************)
C10_BoundedBuffer ==
    ValidRun =>
        \A g \in Generators : \A w \in Workers(g) :
            \A k \in DOMAIN procs[g][w].testcases.lv :
                Held(procs[g][w].testcases.lv[k])
                    <= gen[g].number_of_machines * args.workers.v

(***************************************************************************)
(* The documents worker w of generator g has written: the places          *)
(* <<path, q>> of the file system that hold them, and the one of chunk i.  *)
(***************************************************************************)
WrittenBy(g, w) ==
    {x \in UNION {{<<path, q>> : q \in 1..Len(files[path])} :
                    path \in DOMAIN files} :
       /\ files[x[1]][x[2]].by[1] = gen[g].machine_index
       /\ files[x[1]][x[2]].by[2] = w - 1}

ChunkPlaces(g, w, i) ==
    {x \in WrittenBy(g, w) : files[x[1]][x[2]].by[3] = i}

ChunkData(g, w, i) ==
    LET x == CHOOSE y \in ChunkPlaces(g, w, i) : TRUE
    IN  files[x[1]][x[2]].data

FilesKept(g) == ~(Dryrun /\ gen[g].pc = "finished")

(***************************************************************************)
(* C6: _print over a share of L testcases with testcases_per_file = c      *)
(* opens a file exactly ceil(L / c) times; every chunk holds exactly c     *)
(* testcases except possibly the last, none is empty; c > L >= 1 gives     *)
(* one chunk and L a multiple of c gives no undersized last chunk.         *)
(***************************************************************************)
C6_ChunkCount ==
    ValidRun =>
        \A g \in Generators : \A w \in Workers(g) :
            LET p == procs[g][w]
                c == args.testcases_per_file.v
                L == Len(p.got)
                n == (L + c - 1) \div c
            IN  /\ \A x \in WrittenBy(g, w) :
                     Len(files[x[1]][x[2]].data.scenarios) \in 1..c
                /\ p.status = "done" =>
                     /\ p.opens = n
                     /\ p.i = n
                     /\ (c > L /\ L >= 1) => p.opens = 1
                     /\ FilesKept(g) =>
                          /\ Cardinality(WrittenBy(g, w)) = n
                          /\ \A i \in 0..(n - 1) :
                               /\ Cardinality(ChunkPlaces(g, w, i)) = 1
                               /\ Len(ChunkData(g, w, i).scenarios) =
                                    IF i < n - 1 THEN c ELSE L - c * (n - 1)

C6_Witness ==
    /\ ValidRun
    /\ \E g \in Generators : \E w \in Workers(g) :
         /\ procs[g][w].status = "done"
         /\ Len(procs[g][w].got) = 5
         /\ args.testcases_per_file.v = 2
         /\ procs[g][w].opens = 3
         /\ FilesKept(g)
         /\ Len(ChunkData(g, w, 2).scenarios) = 1

(***************************************************************************)
(* C7: with the default filter, the scenarios of the chunks one worker     *)
(* has written, put together in the order of the chunk numbers, are the    *)
(* worker's share: the same testcases in the same order, none dropped or   *)
(* repeated; and the chunks are written in increasing number, so those     *)
(* written so far are always the chunks 0..i-1.                            *)
(***************************************************************************)
Decode(record) ==
    [r \in 1..Len(record.round_leaders) |->
       <<record.round_leaders[r][1], record.round_partitions[r]>>]

Reassembled(g, w) ==
    Flatten([i \in 1..procs[g][w].i |->
               LET d == ChunkData(g, w, i - 1).scenarios
               IN  [x \in 1..Len(d) |-> Decode(d[x])]])

Share(g, w) ==
    LET scenarios == combine_partitions_with_leaders(gen[g], partitions[g])
    IN  [x \in 1..Len(procs[g][w].got) |->
           Testcase(scenarios, procs[g][w].got[x])]

C7_RoundTrip ==
    ValidRun =>
        \A g \in Generators : \A w \in Workers(g) :
            FilesKept(g) =>
                /\ {files[x[1]][x[2]].by[3] : x \in WrittenBy(g, w)}
                     = 0..(procs[g][w].i - 1)
                /\ \A x, y \in WrittenBy(g, w) :
                     (x[1] = y[1] /\ x[2] < y[2]) =>
                         files[x[1]][x[2]].by[3] < files[y[1]][y[2]].by[3]
                /\ procs[g][w].status \in {"running", "done"} =>
                     Reassembled(g, w) = Share(g, w)

C7_Witness ==
    /\ ValidRun
    /\ \E g \in Generators : \E w \in Workers(g) :
         /\ procs[g][w].status = "done"
         /\ FilesKept(g)
         /\ gen[g].number_of_rounds = 2
         /\ procs[g][w].i = 2
         /\ Len(Reassembled(g, w)) = 4
         /\ Reassembled(g, w)[1] # Reassembled(g, w)[2]

(***************************************************************************)
(* C8: an invalid configuration is rejected before any work.  Generator    *)
(* raises TypeError for a count or index that is no int or a folder_path   *)
(* that is no str, else ValueError for a count below 1, a machine_index    *)
(* below 1 or above number_of_machines, or more partitions than nodes and  *)
(* twins; run raises TypeError for a dryrun that is no bool or a workers   *)
(* or testcases_per_file that is no int, else ValueError when one of them  *)
(* is below 1.  In each case no partition is enumerated, no process        *)
(* started and no file written.                                            *)
(***************************************************************************)
NotInt(x) == x.t \notin {"int", "bool"}

InitTypeBad(g) ==
    \/ NotInt(args.number_of_nodes)
    \/ NotInt(args.number_of_partitions)
    \/ NotInt(args.number_of_rounds)
    \/ NotInt(args.machine_index[g])
    \/ NotInt(args.number_of_machines)
    \/ args.folder_path.t # "str"

InitValueBad(g) ==
    \/ args.number_of_nodes.v < 1
    \/ args.number_of_partitions.v < 1
    \/ args.number_of_rounds.v < 1
    \/ args.machine_index[g].v < 1
    \/ args.machine_index[g].v > args.number_of_machines.v
    \/ args.number_of_partitions.v >
         args.number_of_nodes.v + ((args.number_of_nodes.v - 1) \div 3)

RunTypeBad ==
    \/ args.dryrun.t # "bool"
    \/ NotInt(args.workers)
    \/ NotInt(args.testcases_per_file)

RunValueBad == args.workers.v < 1 \/ args.testcases_per_file.v < 1

NoWork(g) ==
    /\ partitions[g] = <<>>
    /\ procs[g] = <<>>
    /\ files = <<>>

Rejected(g, pc, exc) ==
    /\ gen[g].pc \in {"new", pc} \cup (IF pc = "run_raised" THEN {"ready"} ELSE {})
    /\ gen[g].pc = pc => gen[g].exc = exc
    /\ NoWork(g)

C8_RejectedBeforeWork ==
    \A g \in Generators :
        /\ InitTypeBad(g) => Rejected(g, "raised", "TypeError")
        /\ (~InitTypeBad(g) /\ InitValueBad(g)) =>
             Rejected(g, "raised", "ValueError")
        /\ (~InitTypeBad(g) /\ ~InitValueBad(g) /\ RunTypeBad) =>
             Rejected(g, "run_raised", "TypeError")
        /\ (~InitTypeBad(g) /\ ~InitValueBad(g) /\ ~RunTypeBad /\ RunValueBad) =>
             Rejected(g, "run_raised", "ValueError")

C8_Witness ==
    /\ gen[1].pc = "run_raised"
    /\ gen[1].exc = "ValueError"
    /\ args.workers = PyInt(0)
    /\ NoWork(1)

(***************************************************************************)
(* SpecGen: one generator in one process, as the tests drive it: the       *)
(* partitions, the scenarios, then the testcases drawn one by one from     *)
(* the product and counted.  The count stops at MaxCount.                  *)
(***************************************************************************)
GenConfigs ==
    {c \in (1..MaxGenNodes) \X (1..MaxPartitions) \X (1..MaxRounds) :
       /\ c[1] + ((c[1] - 1) \div 3) >= c[2]
       /\ S(c[1] + ((c[1] - 1) \div 3), c[2]) * ((c[1] - 1) \div 3)
            <= MaxScenarios}

InitGen ==
    /\ \E c \in GenConfigs :
         pipe = [self |-> Generator_init(
                            Arguments(c[1], c[2], c[3], 1, FALSE, 1, 1), 1),
                 stage |-> "new", partitions |-> <<>>, scenarios |-> <<>>,
                 testcases |-> <<>>, count |-> 0, last |-> <<>>]
    /\ fn = <<>>
    /\ args = <<>>
    /\ gen = <<>>
    /\ partitions = <<>>
    /\ procs = <<>>
    /\ files = <<>>

GenMakePartitions ==
    /\ pipe.stage = "new"
    /\ pipe' = [pipe EXCEPT !.stage = "partitions",
                            !.partitions = make_partitions(pipe.self)]
    /\ UNCHANGED <<fn, args, gen, partitions, procs, files>>

GenCombineLeaders ==
    /\ pipe.stage = "partitions"
    /\ pipe' = [pipe EXCEPT
                  !.stage = "scenarios",
                  !.scenarios = combine_partitions_with_leaders(
                                    pipe.self, pipe.partitions)]
    /\ UNCHANGED <<fn, args, gen, partitions, procs, files>>

GenCombineRounds ==
    /\ pipe.stage = "scenarios"
    /\ pipe' = [pipe EXCEPT
                  !.stage = "rounds",
                  !.testcases = combine_scenarios_with_rounds(
                                    pipe.self, pipe.scenarios)]
    /\ UNCHANGED <<fn, args, gen, partitions, procs, files>>

GenNextTestcase ==
    /\ pipe.stage = "rounds"
    /\ pipe.count < MaxCount
    /\ LET r == product_next(pipe.testcases)
       IN  pipe' = IF r.ok
                   THEN [pipe EXCEPT !.testcases = r.src, !.count = @ + 1,
                                     !.last = r.item]
                   ELSE [pipe EXCEPT !.testcases = r.src, !.stage = "done"]
    /\ UNCHANGED <<fn, args, gen, partitions, procs, files>>

NextGen ==
    \/ GenMakePartitions
    \/ GenCombineLeaders
    \/ GenCombineRounds
    \/ GenNextTestcase

SpecGen == InitGen /\ [][NextGen]_vars

(***************************************************************************)
(* C3: for every valid configuration, those without twins (f = 0)          *)
(* included, testcases_length is the number of testcases make_partitions,  *)
(* combine_partitions_with_leaders and combine_scenarios_with_rounds       *)
(* produce, (S(n_total, k) * f)^number_of_rounds.                          *)
(***************************************************************************)
C3_TestcasesLength ==
    pipe.stage = "done" =>
        /\ pipe.count = testcases_length(pipe.self.number_of_nodes,
                                         pipe.self.number_of_partitions,
                                         pipe.self.number_of_rounds)
        /\ pipe.count =
             Pow(S(pipe.self.number_of_nodes + pipe.self.f,
                   pipe.self.number_of_partitions) * pipe.self.f,
                 pipe.self.number_of_rounds)

C3_Witness ==
    /\ pipe.stage = "done"
    /\ pipe.self.number_of_nodes = 4
    /\ pipe.self.number_of_partitions = 2
    /\ pipe.self.number_of_rounds = 2
    /\ pipe.count = 225

C3_WitnessNoTwins ==
    /\ pipe.stage = "done"
    /\ pipe.self.number_of_nodes = 3
    /\ pipe.self.f = 0
    /\ pipe.count = 0

(***************************************************************************)
(* C11: combine_scenarios_with_rounds yields the Cartesian power of the    *)
(* scenarios: every testcase has number_of_rounds scenarios of the input,  *)
(* the c-th testcase yielded is the c-th tuple in the lexicographic order  *)
(* of the input positions (so each tuple comes exactly once, in an order   *)
(* fixed by the input order), and S^R testcases are yielded in all.        *)
(***************************************************************************)
C11_CartesianPower ==
    pipe.stage \in {"rounds", "done"} =>
        LET n == Len(pipe.scenarios)
            r == pipe.self.number_of_rounds
        IN  /\ pipe.count > 0 =>
                  /\ Len(pipe.last) = r
                  /\ \A x \in 1..Len(pipe.last) : pipe.last[x] \in 0..(n - 1)
                  /\ Position(pipe.last, n) = pipe.count - 1
            /\ pipe.stage = "done" => pipe.count = Pow(n, r)

C11_Witness ==
    /\ pipe.stage = "done"
    /\ pipe.self.number_of_rounds = 2
    /\ Len(pipe.scenarios) = 15
    /\ pipe.last = <<14, 14>>
    /\ pipe.count = 225

(***************************************************************************)
(* The twins of the target nodes.                                          *)
(***************************************************************************)
Twins(self) == {get_twin(self, node) : node \in Range(target_nodes(self))}

(***************************************************************************)
(* C12: combine_partitions_with_leaders yields one scenario (leader,       *)
(* partition) per partition and target node, |P| * f in all, the           *)
(* partitions in the order of P and, within a partition, the leaders in    *)
(* increasing order; every leader is a target node, never a twin and       *)
(* never a node outside the targets.                                       *)
(***************************************************************************)
C12_PartitionsWithLeaders ==
    pipe.stage \in {"scenarios", "rounds", "done"} =>
        LET self == pipe.self
            P == pipe.partitions
            sc == pipe.scenarios
        IN  /\ Len(sc) = Len(P) * self.f
            /\ \A p \in 1..Len(P) : \A leader \in 0..(self.f - 1) :
                  sc[(p - 1) * self.f + leader + 1] = <<leader, P[p]>>
            /\ \A i \in 1..Len(sc) :
                  /\ sc[i][1] \in Range(target_nodes(self))
                  /\ sc[i][1] \notin Twins(self)
                  /\ sc[i][1] \notin self.f..(self.number_of_nodes - 1)

C12_Witness ==
    /\ pipe.stage = "scenarios"
    /\ pipe.self.number_of_nodes = 7
    /\ Len(pipe.partitions) = 255
    /\ Len(pipe.scenarios) = 510
    /\ pipe.scenarios[2] = <<1, pipe.partitions[1]>>
    /\ pipe.scenarios[3] = <<0, pipe.partitions[2]>>

(***************************************************************************)
(* SpecRuns: one Generator instance on which run is called up to MaxRuns   *)
(* times, each call with its own dryrun.  RunAgain is the caller's next    *)
(* call of run after the previous one has returned: the jobs of print are  *)
(* new, the instance and the files are what the earlier runs left.         *)
(***************************************************************************)
InitRuns ==
    /\ args \in {a \in ValidArguments : a.number_of_machines.v = 1}
    /\ gen = [g \in 1..Len(args.machine_index) |-> NoGenerator]
    /\ partitions = [g \in 1..Len(args.machine_index) |-> <<>>]
    /\ procs = [g \in 1..Len(args.machine_index) |-> <<>>]
    /\ files = <<>>
    /\ fn = <<>>
    /\ pipe = <<>>

RunAgain(g) ==
    /\ g \in DOMAIN gen
    /\ gen[g].pc = "finished"
    /\ gen[g].runs < MaxRuns
    /\ \E dryrun \in BOOLEAN : args' = [args EXCEPT !.dryrun = PyBool(dryrun)]
    /\ gen' = [gen EXCEPT ![g].pc = "ready", ![g].chunks = <<>>,
                          ![g].spawned = 0, ![g].joined = 0]
    /\ procs' = [procs EXCEPT ![g] = <<>>]
    /\ UNCHANGED <<fn, pipe, partitions, files>>

NextRuns ==
    \E g \in 1..MaxMachines :
        \/ Construct(g)
        \/ Run(g)
        \/ Start(g)
        \/ Work(g)
        \/ Join(g)
        \/ Finish(g)
        \/ RunAgain(g)

SpecRuns == InitRuns /\ [][NextRuns]_vars

(***************************************************************************)
(* C13: a dry run leaves folder_path as the constructor set it: whenever   *)
(* a run with dryrun=False is printing, after any dry runs before it, the  *)
(* folder its workers write into is the folder_path given at               *)
(* construction.                                                           *)
(***************************************************************************)
C13_DryRunKeepsFolder ==
    \A g \in DOMAIN gen :
        (gen[g].pc = "print" /\ ~Dryrun) =>
            gen[g].folder_path = FolderName(args.folder_path)

====
